---- MODULE Spec2Model ----
(***************************************************************************)
(* A model of the generic breadth-first puzzle solver of                   *)
(* src/puzzle/src/lib.rs: the Puzzle trait (is_goal, next), the verifier   *)
(* check, the solver solve and its helper backtrack.                       *)
(*                                                                         *)
(* A puzzle is a pair of functions over a finite set of puzzle states:     *)
(* is_goal (state -> BOOLEAN) and next (state -> sequence of <<move,       *)
(* successor>> pairs, in enumeration order).  The program counter pc names *)
(* the source line about to be executed.                                   *)
(***************************************************************************)
EXTENDS Integers, Sequences, FiniteSets, TLC

\* ------------------------------------------------------------------ bounds
\* Number of puzzle states of the generic puzzles (states are 0..NumStates-1).
NumStates == 3
\* Number of distinct move labels of the generic puzzles (moves are 1..NumMoves).
NumMoves == 2
\* Largest total number of (move, successor) entries over all next() results.
MaxEdges == 3
\* Longest move sequence handed to check by a caller other than solve.
MaxLen == 2

States == 0 .. (NumStates - 1)
Moves == 1 .. NumMoves

\* ------------------------------------------------------------ Option<T>
None == << >>
Some(x) == << x >>
IsSome(o) == Len(o) = 1
Unwrap(o) == o[1]

\* Placeholders of locals that are declared but not yet assigned.
NoState == -1
NoMove == 0
NoPair == << NoMove, NoState >>

\* ------------------------------------------------- the puzzles explored
\* An edge is <<source state, move, successor state>>.
Edges == States \X Moves \X States

\* Edge lists grouped by source state: one list per puzzle.
PuzzleEdges ==
    { es \in UNION { [1 .. k -> Edges] : k \in 0 .. MaxEdges } :
        \A i \in 1 .. (Len(es) - 1) : es[i][1] <= es[i + 1][1] }

\* The next() result of state s: its entries of es, in their order.
NextOf(es, s) ==
    LET sel == SelectSeq(es, LAMBDA e : e[1] = s)
    IN  [i \in 1 .. Len(sel) |-> << sel[i][2], sel[i][3] >>]

Puzzles == { [s \in States |-> NextOf(es, s)] : es \in PuzzleEdges }

\* --------------------------------------------------------------- state
VARIABLES
    next,          \* Puzzle::next: state -> sequence of <<move, successor>>
    is_goal,       \* Puzzle::is_goal: state -> BOOLEAN
    p0,            \* the start state handed to solve and to check
    pc,            \* the source line about to be executed
    hash_map,      \* solve / backtrack: the discovery map
    queue,         \* solve: the frontier (VecDeque)
    p,             \* solve: the state just dequeued
    iter,          \* solve: what is left of p.next() in the for loop
    cur,           \* solve: the (m, puzz) pair of the current iteration
    p1,            \* backtrack: the state whose entry is looked up next
    vec,           \* backtrack: the moves collected so far
    solve_result,  \* what solve returned
    ms,            \* check: the move sequence
    cp,            \* check: the state p of the replay
    ci,            \* check: number of moves of ms already taken by the loop
    citer,         \* check: what is left of p.next() in the inner loop
    check_result,  \* what check returned
    dequeued,      \* history: the states popped from the queue, in order
    pushed,        \* history: the states pushed onto the queue, in order
    expanded,      \* history: the states next() was called on by solve
    given,         \* history: the discovery map as backtrack received it
    lookups,       \* history: the hash_map.remove calls backtrack has made
    run,           \* which call of solve this is (1 or 2)
    first_result   \* what the first call of solve returned

vars == << next, is_goal, p0, pc, hash_map, queue, p, iter, cur, p1, vec,
           solve_result, ms, cp, ci, citer, check_result,
           dequeued, pushed, expanded, given, lookups, run, first_result >>

puzzleVars == << next, is_goal, p0 >>
solveVars == << hash_map, queue, p, iter, cur, p1, vec, solve_result >>
checkVars == << ms, cp, ci, citer, check_result >>
histVars == << dequeued, pushed, expanded >>
btVars == << given, lookups >>
runVars == << run, first_result >>

\* Vec::reverse: the elements of v in the opposite order.
RECURSIVE Reverse(_)
Reverse(v) == IF v = << >> THEN << >> ELSE Append(Reverse(Tail(v)), Head(v))

\* ----------------------------------------------------- the Puzzle trait
\* p.is_goal().
IsGoal(s) == is_goal[s]
\* Faulty variant of Successors: the pairs are enumerated back to front.
SuccessorsReversed(s) == Reverse(next[s])
\* p.next(): the (move, successor) pairs of s in enumeration order.
Successors(s) == next[s]

\* ------------------------------------------------ HashMap and VecDeque
NewHashMap == [s \in {} |-> None]
\* Faulty variant of ContainsKey: the start state is never found in the map.
ContainsKeyNotStart(hm, k) == k \in DOMAIN hm /\ k # p0
ContainsKey(hm, k) == k \in DOMAIN hm
\* Faulty variant of Insert: the entry is stored under the dequeued state p.
InsertAtP(hm, k, v) == [s \in (DOMAIN hm) \cup {p} |-> IF s = p THEN v ELSE hm[s]]
\* Faulty variant of Insert: the entry is never stored.
NoInsert(hm, k, v) == hm
Insert(hm, k, v) == [s \in (DOMAIN hm) \cup {k} |-> IF s = k THEN v ELSE hm[s]]
\* Faulty variant of Remove: the whole map is emptied.
ClearAll(hm, k) == [s \in {} |-> None]
\* Faulty variant of Remove: the entry is looked up and left in the map.
KeepEntry(hm, k) == hm
Remove(hm, k) == [s \in (DOMAIN hm) \ {k} |-> hm[s]]
Removed(hm, k) == IF ContainsKey(hm, k) THEN Some(hm[k]) ELSE None

\* Faulty variant of NewQueue: the new call starts from the frontier an earlier call
\* left behind.
StaleQueue == queue
NewQueue == << >>
\* Faulty variant of PushBack: the state is put at the front of the queue.
PushFront(q, x) == << x >> \o q
PushBack(q, x) == Append(q, x)
IsEmpty(q) == q = << >>
\* Faulty variant of Front: the back of the queue is read instead of its front.
Back(q) == q[Len(q)]
Front(q) == Head(q)
PopFront(q) == Tail(q)

\* ------------------------------------------------------------- initial
Locals ==
    /\ hash_map = [s \in {} |-> None]
    /\ queue = << >>
    /\ p = NoState
    /\ iter = << >>
    /\ cur = NoPair
    /\ p1 = NoState
    /\ vec = << >>
    /\ solve_result = None
    /\ cp = NoState
    /\ ci = 0
    /\ citer = << >>
    /\ check_result = None
    /\ dequeued = << >>
    /\ pushed = << >>
    /\ expanded = << >>
    /\ given = [s \in {} |-> None]
    /\ lookups = 0
    /\ run = 1
    /\ first_result = None

\* A caller hands some start state of some puzzle to solve.
Init ==
    /\ next \in Puzzles
    /\ is_goal \in [States -> BOOLEAN]
    /\ p0 \in States
    /\ pc = "L91"
    /\ ms = << >>
    /\ Locals

\* ---------------------------------------------------------------- solve
\* Lines 91-92: the discovery map and the frontier are created empty.
SolveNew ==
    /\ pc = "L91"
    /\ hash_map' = NewHashMap
    /\ queue' = NewQueue
    /\ pc' = "L93"
    /\ UNCHANGED << puzzleVars, p, iter, cur, p1, vec, solve_result,
                    checkVars, histVars, runVars, btVars >>

\* Line 93: queue.push_back(p0.clone()).
SolvePushStart ==
    /\ pc = "L93"
    /\ queue' = PushBack(queue, p0)
    /\ pushed' = Append(pushed, p0)
    /\ pc' = "L95"
    /\ UNCHANGED << puzzleVars, hash_map, p, iter, cur, p1, vec, solve_result,
                    checkVars, dequeued, expanded, runVars, btVars >>

\* Line 95: hash_map.insert(p0.clone(), None).
SolveInsertStart ==
    /\ pc = "L95"
    /\ hash_map' = Insert(hash_map, p0, None)
    /\ pc' = "L97"
    /\ UNCHANGED << puzzleVars, queue, p, iter, cur, p1, vec, solve_result,
                    checkVars, histVars, runVars, btVars >>

\* Faulty variant of LoopCond: the loop stops one element early.
LoopCondOffByOne(q) == Len(q) > 1

\* Line 97: the loop condition, !queue.is_empty().
LoopCond(q) == ~IsEmpty(q)

\* Lines 97-101 and 125: leave the loop with None when the queue is empty,
\* otherwise pop the front state into p.
SolveLoop ==
    /\ pc = "L97"
    /\ IF LoopCond(queue)
       THEN /\ p' = Front(queue)
            /\ queue' = PopFront(queue)
            /\ dequeued' = Append(dequeued, Front(queue))
            /\ pc' = "L103"
            /\ UNCHANGED solve_result
       ELSE /\ solve_result' = None
            /\ pc' = "returned"
            /\ UNCHANGED << p, queue, dequeued >>
    /\ UNCHANGED << puzzleVars, hash_map, iter, cur, p1, vec,
                    checkVars, pushed, expanded, runVars, btVars >>

\* Faulty variant of GoalFound: the start state is never taken for a goal.
GoalFoundNotStart(s) == IsGoal(s) /\ s # p0

\* Line 103: p.is_goal().
GoalFound(s) == IsGoal(s)

\* Lines 103-106 and 114: a goal state p is handed to backtrack together with
\* the discovery map; any other state has next() called on it.
SolveGoalTest ==
    /\ pc = "L103"
    /\ IF GoalFound(p)
       THEN /\ p1' = p
            /\ vec' = << >>
            /\ given' = hash_map
            /\ lookups' = 0
            /\ pc' = "L135"
            /\ UNCHANGED << iter, expanded >>
       ELSE /\ iter' = Successors(p)
            /\ expanded' = Append(expanded, p)
            /\ pc' = "L114"
            /\ UNCHANGED << p1, vec, btVars >>
    /\ UNCHANGED << puzzleVars, hash_map, queue, p, cur, solve_result,
                    checkVars, dequeued, pushed, runVars >>

\* Faulty variant of IsVacant: every successor is recorded and pushed again, an entry
\* already present being overwritten.
AlwaysVacant(hm, puzz) == TRUE

\* Lines 115-116: the entry of puzz is vacant.
IsVacant(hm, puzz) == ~ContainsKey(hm, puzz)

\* Faulty variant of Advance: the loop never leaves its first element.
NoAdvance(it) == it

\* Line 114: the for loop moves on to the rest of p.next().
Advance(it) == Tail(it)

\* Lines 114-116 and 120: the for loop takes the next (m, puzz); an occupied
\* entry is skipped, a vacant one goes on to the push; at the end of p.next()
\* control returns to the while loop.
SolveFor ==
    /\ pc = "L114"
    /\ IF iter = << >>
       THEN /\ pc' = "L97"
            /\ UNCHANGED << iter, cur >>
       ELSE /\ iter' = Advance(iter)
            /\ IF IsVacant(hash_map, Head(iter)[2])
               THEN /\ cur' = Head(iter)
                    /\ pc' = "L117"
               ELSE /\ pc' = "L114"
                    /\ UNCHANGED cur
    /\ UNCHANGED << puzzleVars, hash_map, queue, p, p1, vec, solve_result,
                    checkVars, histVars, runVars, btVars >>

\* Line 117: queue.push_back(puzz).
SolvePush ==
    /\ pc = "L117"
    /\ queue' = PushBack(queue, cur[2])
    /\ pushed' = Append(pushed, cur[2])
    /\ pc' = "L118"
    /\ UNCHANGED << puzzleVars, hash_map, p, iter, cur, p1, vec, solve_result,
                    checkVars, dequeued, expanded, runVars, btVars >>

\* Faulty variant of Discovery: the new state is recorded as its own predecessor.
DiscoverySelf(pred, m) == Some(<< cur[2], m >>)

\* Faulty variant of Discovery: the start state is recorded as the predecessor.
DiscoveryFromStart(pred, m) == Some(<< p0, m >>)

\* Line 118: the entry recorded for a new state, Some((p.clone(), m)).
Discovery(pred, m) == Some(<< pred, m >>)

\* Line 118: e.insert(Some((p.clone(), m))).
SolveInsert ==
    /\ pc = "L118"
    /\ hash_map' = Insert(hash_map, cur[2], Discovery(p, cur[1]))
    /\ pc' = "L114"
    /\ UNCHANGED << puzzleVars, queue, p, iter, cur, p1, vec, solve_result,
                    checkVars, histVars, runVars, btVars >>

\* Faulty variant of Reversed: the moves stay in goal-to-start order.
NotReversed(v) == v

\* Line 110: vec.reverse().
Reversed(v) == Reverse(v)

\* Lines 134-145 with lines 106-111 of the caller: one turn of backtrack's
\* loop.  hash_map.remove(&p1) takes the entry out of the map; a missing entry
\* makes backtrack, and then solve, return None; the entry None ends the walk
\* and solve returns the reversed moves with the goal state p; any other entry
\* adds its move and continues from its predecessor.
Backtrack ==
    /\ pc = "L135"
    /\ hash_map' = Remove(hash_map, p1)
    /\ lookups' = lookups + 1
    /\ LET e == Removed(hash_map, p1)
       IN  IF ~IsSome(e)
           THEN /\ solve_result' = None
                /\ pc' = "returned"
                /\ UNCHANGED << p1, vec >>
           ELSE IF ~IsSome(Unwrap(e))
           THEN /\ solve_result' = Some(<< Reversed(vec), p >>)
                /\ pc' = "returned"
                /\ UNCHANGED << p1, vec >>
           ELSE /\ vec' = Append(vec, Unwrap(Unwrap(e))[2])
                /\ p1' = Unwrap(Unwrap(e))[1]
                /\ pc' = "L135"
                /\ UNCHANGED solve_result
    /\ UNCHANGED << puzzleVars, queue, p, iter, cur,
                    checkVars, histVars, given, runVars >>

SolveStep ==
    \/ SolveNew
    \/ SolvePushStart
    \/ SolveInsertStart
    \/ SolveLoop
    \/ SolveGoalTest
    \/ SolveFor
    \/ SolvePush
    \/ SolveInsert
    \/ Backtrack

\* ---------------------------------------------------------------- check
\* A call check(p0, moves): control enters check with its arguments.
CheckEnter(moves) ==
    /\ ms' = moves
    /\ ci' = 0
    /\ citer' = << >>
    /\ check_result' = None
    /\ pc' = "L44"

\* The caller replays the moves solve returned: check(p0, ms).
CallCheck ==
    /\ pc = "returned"
    /\ run = 1
    /\ IsSome(solve_result)
    /\ CheckEnter(Unwrap(solve_result)[1])
    /\ UNCHANGED << puzzleVars, solveVars, cp, histVars, runVars, btVars >>

\* Line 44: let mut p = p0.
CheckStart ==
    /\ pc = "L44"
    /\ cp' = p0
    /\ pc' = "L45"
    /\ UNCHANGED << puzzleVars, solveVars, ms, ci, citer, check_result,
                    histVars, runVars, btVars >>

\* Lines 45-46 and 55-59: the outer loop takes the next move cm and calls
\* p.next(); after the last move the result is Some(p) for a goal state p and
\* None otherwise.
CheckMove ==
    /\ pc = "L45"
    /\ IF ci < Len(ms)
       THEN /\ ci' = ci + 1
            /\ citer' = Successors(cp)
            /\ pc' = "L46"
            /\ UNCHANGED check_result
       ELSE /\ check_result' = IF IsGoal(cp) THEN Some(cp) ELSE None
            /\ pc' = "checked"
            /\ UNCHANGED << ci, citer >>
    /\ UNCHANGED << puzzleVars, solveVars, ms, cp, histVars, runVars, btVars >>

\* Faulty variant of MoveEq: any move of p.next() is taken for cm.
AnyMove(cm, m) == TRUE

\* Line 47: cm == &m.
MoveEq(cm, m) == cm = m

\* Lines 46-53: the inner loop looks at the next (m, pp) of p.next(); on the
\* first m equal to cm the replay advances to pp and continues with the next
\* move; when p.next() is used up, check returns None.
CheckScan ==
    /\ pc = "L46"
    /\ IF citer = << >>
       THEN /\ check_result' = None
            /\ pc' = "checked"
            /\ UNCHANGED << cp, citer >>
       ELSE IF MoveEq(ms[ci], Head(citer)[1])
       THEN /\ cp' = Head(citer)[2]
            /\ pc' = "L45"
            /\ UNCHANGED << citer, check_result >>
       ELSE /\ citer' = Tail(citer)
            /\ UNCHANGED << cp, pc, check_result >>
    /\ UNCHANGED << puzzleVars, solveVars, ms, ci, histVars, runVars, btVars >>

CheckStep ==
    \/ CheckStart
    \/ CheckMove
    \/ CheckScan

\* ------------------------------------------------- a second call of solve
\* The caller keeps the first result and calls solve(p0) again.  The new call
\* owns nothing of the first one: its locals are whatever is left in memory
\* until it assigns them.
Rerun ==
    /\ pc = "returned"
    /\ run = 1
    /\ first_result' = solve_result
    /\ run' = 2
    /\ dequeued' = << >>
    /\ pushed' = << >>
    /\ expanded' = << >>
    /\ pc' = "L91"
    /\ UNCHANGED << puzzleVars, solveVars, checkVars, btVars >>

\* ---------------------------------------------------- the counter puzzle
\* State: an integer in [CounterLo, CounterHi]; moves Inc and Dec, clamped at
\* the bounds; goal: the state equals the goal value.
CounterLo == 0
CounterHi == 5
CounterGoal == 5
CounterNoGoal == 99
Inc == 1
Dec == 2
CounterStates == CounterLo .. CounterHi
Clamp(v) == IF v < CounterLo THEN CounterLo ELSE IF v > CounterHi THEN CounterHi ELSE v
CounterNext(incFirst) ==
    [s \in CounterStates |->
        IF incFirst
        THEN << << Inc, Clamp(s + 1) >>, << Dec, Clamp(s - 1) >> >>
        ELSE << << Dec, Clamp(s - 1) >>, << Inc, Clamp(s + 1) >> >>]
CounterIsGoal(g) == [s \in CounterStates |-> s = g]
FiveIncs == << Inc, Inc, Inc, Inc, Inc >>

\* solve(0) on the counter puzzle and on its variant without a goal, and
\* check(0, ms) for the two move sequences of the scenario.
InitCounter ==
    /\ \E incFirst \in BOOLEAN : next = CounterNext(incFirst)
    /\ \E g \in {CounterGoal, CounterNoGoal} : is_goal = CounterIsGoal(g)
    /\ p0 = CounterLo
    /\ \/ pc = "L91" /\ ms = << >>
       \/ pc = "L44" /\ ms \in {FiveIncs, << Dec >>}
    /\ Locals

\* -------------------------------------------------- check called directly
MoveSeqs == UNION { [1 .. k -> Moves] : k \in 0 .. MaxLen }

\* A caller hands some start state and some move sequence to check.
InitCheck ==
    /\ next \in Puzzles
    /\ is_goal \in [States -> BOOLEAN]
    /\ p0 \in States
    /\ pc = "L44"
    /\ ms \in MoveSeqs
    /\ Locals

\* ------------------------------------------------------- specifications
Next ==
    \/ SolveStep
    \/ CallCheck
    \/ CheckStep

Spec == Init /\ [][Next]_vars

\* The program is the only process and runs without pause: a step that can be
\* taken is taken.
SpecFair == Init /\ [][Next]_vars /\ WF_vars(Next)

SpecCounter == InitCounter /\ [][Next]_vars

SpecCheck == InitCheck /\ [][CheckStep]_vars

\* ---------------------------------------------- backtrack called directly
\* The values of a discovery map, and the discovery maps over the states.
Entries == {None} \cup { Some(<< s, m >>) : s \in States, m \in Moves }
HashMaps == UNION { [D -> Entries] : D \in SUBSET States }

\* backtrack(hash_map, p1) is entered with some map and some state; the
\* caller, as in solve, is at line 106 with the state in p.
InitBacktrack ==
    /\ next = [s \in States |-> << >>]
    /\ p \in States
    /\ is_goal = [s \in States |-> s = p]
    /\ p0 = p
    /\ hash_map \in HashMaps
    /\ given = hash_map
    /\ p1 = p
    /\ vec = << >>
    /\ lookups = 0
    /\ pc = "L135"
    /\ queue = << >>
    /\ iter = << >>
    /\ cur = NoPair
    /\ solve_result = None
    /\ ms = << >>
    /\ cp = NoState
    /\ ci = 0
    /\ citer = << >>
    /\ check_result = None
    /\ dequeued = << p >>
    /\ pushed = << >>
    /\ expanded = << >>
    /\ run = 1
    /\ first_result = None

SpecBacktrack == InitBacktrack /\ [][Backtrack]_vars

NextRerun ==
    \/ SolveStep
    \/ Rerun

SpecRerun == Init /\ [][NextRerun]_vars

\* ------------------------------------------------ what the claims speak of
\* The puzzle states, and the (move, successor) pairs next() lists for s.
PuzzleStates == DOMAIN next
Listed(s) == { next[s][i] : i \in DOMAIN next[s] }

\* The states some sequence of exactly k legal moves leads to from p0.
RECURSIVE ReachIn(_)
ReachIn(k) ==
    IF k = 0 THEN {p0}
    ELSE UNION { { e[2] : e \in Listed(s) } : s \in ReachIn(k - 1) }

\* The states reachable from p0 by legal moves.
Reachable == UNION { ReachIn(k) : k \in 0 .. Cardinality(PuzzleStates) }
GoalReachable == \E s \in Reachable : is_goal[s]

\* The states the first k moves of mv can lead to from p0, each move taken
\* along any pair of next() that carries it.
RECURSIVE Follow(_, _)
Follow(mv, k) ==
    IF k = 0 THEN {p0}
    ELSE { e[2] : e \in { f \in UNION { Listed(s) : s \in Follow(mv, k - 1) } :
                          f[1] = mv[k] } }

\* Equal moves of one next() result lead to equal states.
MoveDeterministic ==
    \A s \in PuzzleStates : \A i, j \in DOMAIN next[s] :
        next[s][i][1] = next[s][j][1] => next[s][i][2] = next[s][j][2]

\* The pair of next[s] at position j is the first one whose move is m.
FirstWith(s, m, j) ==
    /\ j \in DOMAIN next[s]
    /\ next[s][j][1] = m
    /\ \A k \in 1 .. (j - 1) : next[s][k][1] # m

\* The state (if any) the replay of the first k moves of ms reaches, each
\* move taken along the first pair of next() that carries it.
RECURSIVE Replay(_)
Replay(k) ==
    IF k = 0 THEN {p0}
    ELSE { t \in PuzzleStates :
             \E s \in Replay(k - 1) : \E j \in DOMAIN next[s] :
                 FirstWith(s, ms[k], j) /\ next[s][j][2] = t }

\* Move i of ms has no pair in next() of the state the replay has reached.
IllegalAt(i) ==
    \E s \in Replay(i - 1) : \A e \in Listed(s) : e[1] # ms[i]

SolveReturned == pc = "returned"
SolveMoves == Unwrap(solve_result)[1]
SolveGoal == Unwrap(solve_result)[2]

\* ------------------------------------------------------------ properties
\* C1 (minimality): when solve returns Some((ms, goal)), no sequence of fewer
\* than Len(ms) legal moves from p0 ends in a goal state.
C1_Minimality ==
    (SolveReturned /\ IsSome(solve_result)) =>
        \A k \in 0 .. (Len(SolveMoves) - 1) : \A s \in ReachIn(k) : ~is_goal[s]

\* solve has returned a solution of at least one move although a longer legal
\* sequence reaches a goal state as well.
C1_Witness ==
    /\ SolveReturned
    /\ IsSome(solve_result)
    /\ Len(SolveMoves) >= 1
    /\ \E k \in (Len(SolveMoves) + 1) .. NumStates : \E s \in ReachIn(k) : is_goal[s]

\* C2 as stated (soundness via the verifier, equal move labels allowed in one
\* next() result): when solve returned Some((ms, goal)), check(p0, ms)
\* returns Some(goal).
C2_Original ==
    (pc = "checked" /\ IsSome(solve_result)) => check_result = Some(SolveGoal)

\* C2 amended: the same for the puzzles in which equal moves of one next()
\* result lead to equal states.
C2_Soundness ==
    (pc = "checked" /\ IsSome(solve_result) /\ MoveDeterministic) =>
        check_result = Some(SolveGoal)

\* check has replayed a solution of two moves of such a puzzle.
C2_Witness ==
    /\ pc = "checked"
    /\ IsSome(solve_result)
    /\ MoveDeterministic
    /\ Len(ms) = 2
    /\ check_result = Some(SolveGoal)

\* C3 (path validity): when solve returns Some((ms, p)), p is a goal state and
\* ms is a legal move sequence leading from p0 to p.
C3_PathValid ==
    (SolveReturned /\ IsSome(solve_result)) =>
        /\ is_goal[SolveGoal]
        /\ SolveGoal \in Follow(SolveMoves, Len(SolveMoves))

\* solve has returned a solution of two different moves.
C3_Witness ==
    /\ SolveReturned
    /\ IsSome(solve_result)
    /\ Len(SolveMoves) = 2
    /\ SolveMoves[1] # SolveMoves[2]

\* C4 (completeness): solve returns Some exactly when a goal state is reachable
\* from p0, and None when none is.
C4_Completeness ==
    SolveReturned => (IsSome(solve_result) <=> GoalReachable)

\* solve has returned None for a puzzle with a goal state, after looking at
\* more than the start state.
C4_Witness ==
    /\ SolveReturned
    /\ solve_result = None
    /\ \E s \in PuzzleStates : is_goal[s]
    /\ Cardinality(Reachable) >= 2
    /\ Len(dequeued) >= 2

\* The loop has stopped: on a dequeued goal state, or on an empty frontier
\* with the failure result, the latter whenever no goal state is reachable.
Stopped ==
    /\ SolveReturned
    /\ IF IsSome(solve_result)
       THEN dequeued # << >> /\ is_goal[dequeued[Len(dequeued)]]
       ELSE queue = << >>
    /\ (~GoalReachable) => solve_result = None

\* C5 (termination): the loop of solve eventually stops.
C5_Termination == <>Stopped

\* solve has stopped with the failure result after emptying a frontier that
\* held more than the start state.
C5_Witness ==
    /\ Stopped
    /\ solve_result = None
    /\ Len(dequeued) >= 2

\* C6 (trivial start): when p0 is a goal state, solve returns the empty move
\* sequence with p0; p0 is the one state dequeued and no successor of p0 is
\* ever recorded or pushed.
C6_TrivialStart ==
    is_goal[p0] =>
        /\ expanded = << >>
        /\ DOMAIN hash_map \subseteq {p0}
        /\ Len(pushed) <= 1
        /\ dequeued \in { << >>, << p0 >> }
        /\ SolveReturned => /\ solve_result = Some(<< << >>, p0 >>)
                            /\ dequeued = << p0 >>

\* solve has returned for a goal start state that has successors.
C6_Witness ==
    /\ SolveReturned
    /\ is_goal[p0]
    /\ next[p0] # << >>

\* C7 (illegal prefixes): when some move of ms has no matching pair in next()
\* of the state the replay has reached, check returns None.
C7_IllegalPrefix ==
    (pc = "checked" /\ \E i \in 1 .. Len(ms) : IllegalAt(i)) => check_result = None

\* check has returned for a sequence whose first move is illegal and is
\* followed by another move, in a puzzle with a goal state.
C7_Witness ==
    /\ pc = "checked"
    /\ Len(ms) = 2
    /\ IllegalAt(1)
    /\ \E s \in PuzzleStates : is_goal[s]

\* C8 (verifier result): check returns Some(p) exactly when every move of ms
\* is matched in turn, the replay taking the first matching pair, and the
\* state p it ends in is a goal state; otherwise it returns None.
C8_CheckResult ==
    pc = "checked" =>
        check_result =
            IF \E t \in Replay(Len(ms)) : is_goal[t]
            THEN Some(CHOOSE t \in Replay(Len(ms)) : is_goal[t])
            ELSE None

\* check has accepted two moves, the first of which is carried by two pairs of
\* next(p0) that lead to different states.
C8_Witness ==
    /\ pc = "checked"
    /\ Len(ms) = 2
    /\ IsSome(check_result)
    /\ \E i, j \in DOMAIN next[p0] :
          /\ next[p0][i][1] = ms[1]
          /\ next[p0][j][1] = ms[1]
          /\ next[p0][i][2] # next[p0][j][2]

\* C9 (counter puzzle): solve(0) returns five Incs and the state 5; the
\* variant without a goal returns None; check(0, five Incs) returns Some(5)
\* and check(0, [Dec]) returns None.
C9_Counter ==
    /\ (SolveReturned /\ is_goal = CounterIsGoal(CounterGoal)) =>
           solve_result = Some(<< FiveIncs, CounterGoal >>)
    /\ (SolveReturned /\ is_goal = CounterIsGoal(CounterNoGoal)) =>
           solve_result = None
    /\ (pc = "checked" /\ ms = FiveIncs /\ is_goal = CounterIsGoal(CounterGoal)) =>
           check_result = Some(CounterGoal)
    /\ (pc = "checked" /\ ms = << Dec >>) => check_result = None

\* check(0, [Dec]) has returned for the counter puzzle with goal 5.
C9_Witness ==
    /\ pc = "checked"
    /\ ms = << Dec >>
    /\ is_goal = CounterIsGoal(CounterGoal)
    /\ check_result = None

Searching == pc \in {"L93", "L95", "L97", "L103", "L114", "L117", "L118"}
StateSet(seq) == { seq[i] : i \in DOMAIN seq }
NoRepeat(seq) == \A i, j \in DOMAIN seq : seq[i] = seq[j] => i = j

\* The start state and every state returned by next() of an expanded state.
Enumerated ==
    {p0} \cup UNION { { e[2] : e \in Listed(s) } : s \in StateSet(expanded) }

\* The least number of legal moves that lead from p0 to s (s reachable).
Dist(s) == CHOOSE k \in 0 .. Cardinality(PuzzleStates) :
               s \in ReachIn(k) /\ \A j \in 0 .. (k - 1) : s \notin ReachIn(j)

\* The number of predecessor entries of hm followed from s to an entry None;
\* -1 when the walk leaves the keys or has not ended after fuel steps.
RECURSIVE ChainLen(_, _, _)
ChainLen(hm, s, fuel) ==
    IF fuel = 0 \/ s \notin DOMAIN hm THEN -1
    ELSE IF hm[s] = None THEN 0
    ELSE LET d == ChainLen(hm, Unwrap(hm[s])[1], fuel - 1)
         IN  IF d < 0 THEN -1 ELSE d + 1

\* C11 (dedupe): between two turns of the loop the keys of the discovery map
\* are exactly the start state and the states returned by next() of the
\* expanded states (never more at any point of the search); no state is
\* pushed, dequeued or expanded twice.
C11_Dedupe ==
    /\ NoRepeat(pushed)
    /\ NoRepeat(dequeued)
    /\ NoRepeat(expanded)
    /\ Searching => DOMAIN hash_map \subseteq Enumerated
    /\ pc = "L97" => DOMAIN hash_map = Enumerated

\* The search has ended after expanding two states, one of which lists the
\* start state, and after meeting some state in two next() results.
C11_Witness ==
    /\ SolveReturned
    /\ Len(expanded) >= 2
    /\ \E s \in StateSet(expanded) \ {p0} : \E e \in Listed(s) : e[2] = p0
    /\ \E s, t \in StateSet(expanded) : \E e \in Listed(s) : \E f \in Listed(t) :
          s # t /\ e[2] = f[2] /\ e[2] # p0

MapIntact ==
    \/ Searching
    \/ pc = "L135" /\ lookups = 0
    \/ SolveReturned /\ solve_result = None /\ lookups = 0

JustSeen == next[p][Len(next[p]) - Len(iter)]

\* C14 (first enumerated wins): during the search an entry of the discovery
\* map, once there, stays as it is (the None of the start state included);
\* a successor that is already a key leaves the map and the frontier as they
\* are.
C14_FirstWins ==
    [][ Searching =>
          /\ \A s \in DOMAIN hash_map :
                s \in DOMAIN hash_map' /\ hash_map'[s] = hash_map[s]
          /\ (pc = "L114" /\ iter # << >> /\ Head(iter)[2] \in DOMAIN hash_map) =>
                (hash_map' = hash_map /\ queue' = queue /\ pc' = "L114")
      ]_vars

\* The for loop has just skipped the start state, listed by another state,
\* and the entry of the start state is still None.
C14_Witness ==
    /\ pc = "L114"
    /\ p # p0
    /\ Len(iter) < Len(next[p])
    /\ JustSeen[2] = p0
    /\ cur[2] # p0
    /\ hash_map[p0] = None

GoalDequeued == dequeued # << >> /\ is_goal[dequeued[Len(dequeued)]]

\* C16 (stop at the first goal): a dequeued goal state is the last state
\* dequeued and is never expanded; once it is dequeued nothing is dequeued,
\* expanded or pushed any more and the map gets no new key; the state solve
\* returns is that state.
C16_StopAtGoal ==
    /\ [] /\ \A i \in DOMAIN dequeued : is_goal[dequeued[i]] => i = Len(dequeued)
          /\ \A i \in DOMAIN expanded : ~is_goal[expanded[i]]
          /\ (SolveReturned /\ IsSome(solve_result)) =>
                (GoalDequeued /\ SolveGoal = dequeued[Len(dequeued)])
          /\ (SolveReturned /\ GoalDequeued) => IsSome(solve_result)
    /\ [][ GoalDequeued =>
             /\ dequeued' = dequeued
             /\ expanded' = expanded
             /\ pushed' = pushed
             /\ DOMAIN hash_map' \subseteq DOMAIN hash_map
         ]_vars

\* solve has returned a goal state that has successors, dequeued after another
\* state, while the frontier still held a state.
C16_Witness ==
    /\ SolveReturned
    /\ IsSome(solve_result)
    /\ Len(dequeued) >= 2
    /\ next[SolveGoal] # << >>
    /\ queue # << >>

\* C17 (no internal inconsistency): every state backtrack looks up during a
\* solve run is a key of the map, so that backtrack never returns None; solve
\* returns None only with an empty frontier and no goal state dequeued.
C17_NoInconsistency ==
    /\ pc = "L135" => p1 \in DOMAIN hash_map
    /\ (SolveReturned /\ solve_result = None) =>
          (queue = << >> /\ ~GoalDequeued /\ lookups = 0)
    /\ (SolveReturned /\ GoalDequeued) => IsSome(solve_result)

\* backtrack is about to look up the start state after two other states.
C17_Witness ==
    /\ pc = "L135"
    /\ lookups = 2
    /\ p1 = p0
    /\ Cardinality(DOMAIN hash_map) = 1

\* The state at the end of the legal moves at positions ps[1..k] of the
\* next() results along the way, NoState when a position is not there.
RECURSIVE EndOf(_, _)
EndOf(ps, k) ==
    IF k = 0 THEN p0
    ELSE LET s == EndOf(ps, k - 1)
         IN  IF s = NoState \/ ps[k] \notin DOMAIN next[s]
             THEN NoState
             ELSE next[s][ps[k]][2]

\* The moves at those positions.
MovesAlong(ps) == [k \in 1 .. Len(ps) |-> next[EndOf(ps, k - 1)][ps[k]][1]]

\* The least number of legal moves that lead from p0 to a goal state.
MinGoalDist ==
    CHOOSE k \in 0 .. Cardinality(PuzzleStates) :
        /\ \E s \in ReachIn(k) : is_goal[s]
        /\ \A j \in 0 .. (k - 1) : \A s \in ReachIn(j) : ~is_goal[s]

\* The longest next() result.
Widest == CHOOSE n \in 0 .. Cardinality(PuzzleStates) * (MaxEdges + 2) :
              /\ \A s \in PuzzleStates : Len(next[s]) <= n
              /\ \E s \in PuzzleStates : Len(next[s]) = n

\* The position sequences of the shortest legal move sequences to a goal.
Shortest ==
    { ps \in [1 .. MinGoalDist -> 1 .. Widest] :
        EndOf(ps, MinGoalDist) # NoState /\ is_goal[EndOf(ps, MinGoalDist)] }

LexLeq(a, b) ==
    a = b \/ \E i \in DOMAIN a : a[i] < b[i] /\ \A j \in 1 .. (i - 1) : a[j] = b[j]

LexLeast == CHOOSE a \in Shortest : \A b \in Shortest : LexLeq(a, b)

\* C18 (tie-break): among the shortest legal move sequences that end in a
\* goal state solve returns the one whose positions in the next() results
\* are lexicographically least, with the goal state it reaches.
C18_TieBreak ==
    (SolveReturned /\ GoalReachable) =>
        solve_result =
            Some(<< MovesAlong(LexLeast), EndOf(LexLeast, MinGoalDist) >>)

\* solve has returned two moves where several shortest sequences exist.
C18_Witness ==
    /\ SolveReturned
    /\ IsSome(solve_result)
    /\ Len(SolveMoves) = 2
    /\ Cardinality(Shortest) >= 2

\* The k-th state of the walk along the predecessor entries of the map
\* backtrack received, from the state p it was called with.
RECURSIVE WalkAt(_)
WalkAt(k) == IF k = 0 THEN p ELSE Unwrap(given[WalkAt(k - 1)])[1]

\* The walk goes on from its k-th state: that state has an entry with a
\* predecessor and was not looked up (and so removed) before.
GoesOn(k) ==
    /\ WalkAt(k) \in DOMAIN given
    /\ given[WalkAt(k)] # None
    /\ \A j \in 0 .. (k - 1) : WalkAt(j) # WalkAt(k)

\* The number of steps after which the walk ends.
WalkLen ==
    CHOOSE n \in 0 .. Cardinality(DOMAIN given) :
        (\A j \in 0 .. (n - 1) : GoesOn(j)) /\ ~GoesOn(n)

\* The walk ends on an entry None.
EndsAtRoot == WalkAt(WalkLen) \in DOMAIN given /\ given[WalkAt(WalkLen)] = None

\* The moves of the walk, from the state backtrack was called with.
Collected == [k \in 1 .. WalkLen |-> Unwrap(given[WalkAt(k - 1)])[2]]

\* C19 (backtrack on any map): the walk stops with None at the first state
\* without an entry, a state already looked up included, and with the moves
\* collected at the first entry None; it makes at most (number of entries + 1)
\* lookups; the moves are collected from the state backtrack was called with
\* towards the root, and solve returns them in the opposite order.
C19_Backtrack ==
    /\ lookups <= Cardinality(DOMAIN given) + 1
    /\ pc = "L135" =>
          /\ lookups <= WalkLen
          /\ p1 = WalkAt(lookups)
          /\ vec = SubSeq(Collected, 1, lookups)
    /\ pc = "returned" =>
          /\ lookups = WalkLen + 1
          /\ vec = Collected
          /\ solve_result =
                IF EndsAtRoot
                THEN Some(<< [k \in 1 .. WalkLen |-> Collected[WalkLen + 1 - k]], p >>)
                ELSE None

\* backtrack has returned None on coming back, after two different moves, to
\* the state it was called with.
C19_Witness ==
    /\ pc = "returned"
    /\ solve_result = None
    /\ lookups = 3
    /\ Cardinality(DOMAIN given) = 2
    /\ WalkAt(2) = p
    /\ vec[1] # vec[2]

====
